---- MODULE Spec2Model ----
(***************************************************************************)
(* Model of mem-analyser: the stack paint scanner (calculate_used_ram)     *)
(* bracketed by CPU::access_only_in_halt_mode, the snapshot recorder with  *)
(* its statistics and replay iterator, and the disassembly index.          *)
(*                                                                         *)
(* Option<T> is modelled as a sequence of length <= 1: <<>> is None and    *)
(* <<x>> is Some(x).  A Rust Range<u32> is the record [start, end], the    *)
(* half-open interval start <= a < end.                                    *)
(***************************************************************************)
EXTENDS Integers, Sequences, FiniteSets, TLC

\* ------------------------------------------------------------------ bounds

\* a scan may find at most MaxTouched overwritten bytes ...
MaxTouched == 2
\* ... all of them within Window bytes below the stack top
Window == 25
\* the stack tops a scan is started with: one close to address 0, one far from it
LowTop == 3
HighTop == 200
\* a RAM whose lowest mapped address is only ShortRam bytes below the stack top
ShortRam == 4
\* depth of the stack pointer below the stack top when the registers are read
SpDepth == 8
\* a recorder takes at most MaxRecords samples
MaxRecords == 3
\* one replay iterator is advanced at most MaxYield times
MaxYield == 4
\* a freely chosen listing has at most MaxLines lines
MaxLines == 4

\* ------------------------------------------------------- program constants

BYTE_PATTERN == 85
TEST_OFFSET == 128
OFFSET_BETWEEN_RANGES == 4 * 5
\* u32 0 - 1 in a build without overflow checks is 2^32 - 1; it is written as
\* its representative -1 modulo 2^32 (no address that large is mapped)
WrappedBelowZero == -1

None == <<>>
Some(x) == <<x>>

\* a byte value other than the paint pattern
TouchedByte == BYTE_PATTERN + 68

VARIABLES
    \* --- target core and the halt bracket (cpu.rs)
    core,              \* run-state of the target core: "running" | "halted"
    entry_core,        \* run-state of the core when the access was entered
    prev_state_halt,   \* local of access_only_in_halt_mode
    cmds,              \* halt/run commands issued to the probe, in order
    pc,                \* position of the access, or of main around it, in its code
    analyse_mode,      \* "looping": the scan is called from main's loop; "none": on its own
    \* --- memory map of the target
    ram_base,          \* lowest readable address
    \* --- locals of calculate_used_ram (mem_monitoring.rs)
    stack_ptr,
    address,
    used_bytes,
    in_offset_flag,
    test_offset,
    act_range,         \* Option<UsedRange>
    offset_mem,        \* Vec<u8>
    ranges,            \* Vec<Range<u32>>
    act_stack_ptr,
    instr_ptr,
    res,               \* Option<RamSnapshot>: the value returned on success
    \* --- history of the scan
    touched,           \* addresses read with a value other than BYTE_PATTERN
    run,               \* length of the current run of consecutive untouched reads
    max_run,           \* longest run of consecutive untouched reads so far
    reads,             \* number of successful byte reads
    loop_exit,         \* how the read loop was left: "none" | "break" | "fail" | "overflow"
    last_read,         \* Option<u32>: the address of the latest successful read
    \* --- RamSnapshotRecorder (mem_monitoring.rs)
    snapshot_variants, \* Vec<RamSnapshot>
    records,           \* Vec<usize>: 0-based positions in snapshot_variants
    iter,              \* Option<RamSnapshotRecords>: the live replay iterator
    stats,             \* Option<RamStatistics>: value returned by calculate_statistics
    rec_pc,            \* "run" | "assert_failed" | "out_of_bounds" (a panic) | "idle"
    \* --- history of the recorder
    recorded,          \* the snapshots passed to record, in call order
    yielded,           \* the snapshots the live iterator has returned, in order
    iter_done,         \* the live iterator has returned None
    feed,              \* the samples being recorded: "free" or the name of a fixed series
    \* --- disassembly index (asm_parsing.rs)
    actual_function,   \* Option<FunctionHeader>: the open accumulator
    functions,         \* asm_file.functions
    asm_pc,            \* "parsing" | "built" | "panic" | "idle"
    query,             \* the latest query and its result
    \* --- history of the build
    listing,           \* the lines read so far, in order
    tape               \* the listing being read: "free" or the name of a fixed one

scanVars == <<core, entry_core, prev_state_halt, cmds, pc, analyse_mode, ram_base, stack_ptr,
              address, used_bytes, in_offset_flag, test_offset, act_range,
              offset_mem, ranges, act_stack_ptr, instr_ptr, res, touched, run,
              max_run, reads, loop_exit, last_read>>

recVars == <<snapshot_variants, records, iter, stats, rec_pc, recorded, yielded,
             iter_done, feed>>

asmVars == <<actual_function, functions, asm_pc, query, listing, tape>>

vars == <<scanVars, recVars, asmVars>>

\* ------------------------------------------------------------- helpers

RECURSIVE CountPattern(_)
\* number of elements of a byte vector equal to 0x55 (the loop at lines 239-243)
CountPattern(mem) ==
    IF mem = <<>> THEN 0
    ELSE (IF mem[Len(mem)] = BYTE_PATTERN THEN 1 ELSE 0)
         + CountPattern(SubSeq(mem, 1, Len(mem) - 1))

\* UsedRange::new
UsedRangeNew(start) == [start |-> start]

\* UsedRange::complete: end..self.start
UsedRangeComplete(self, end) == [start |-> end, end |-> self.start]

\* Range<u32>::contains
RangeContains(r, a) == r.start <= a /\ a < r.end

\* ------------------------------------------------- disassembly index query

\* AsmFile::get_function_based_on_addr: the first function of the table whose
\* range contains addr, as an Option<Function>
get_function_based_on_addr(fs, addr) ==
    LET hits == {i \in 1..Len(fs) : RangeContains(fs[i].range, addr)}
    IN  IF hits = {} THEN None
        ELSE Some(fs[CHOOSE i \in hits : \A j \in hits : i <= j])

\* the index a scan resolves the program counter against: A = 0x10..0x1f and
\* B = 0x20..0x2f
ScanIndex ==
    << [name |-> "A", range |-> [start |-> 16, end |-> 32], instructions |-> <<>>],
       [name |-> "B", range |-> [start |-> 32, end |-> 48], instructions |-> <<>>] >>

\* program-counter values the target may be stopped at: inside A, inside B, and
\* outside every indexed function
InstrPtrs == {16, 47, 48}

\* ------------------------------------------------- target memory and core

\* read_word_8 succeeds on the mapped addresses below the stack top
Readable(a) == ram_base <= a /\ a < stack_ptr

\* the values a successful read of the current address may return
ByteValues ==
    {BYTE_PATTERN} \cup
    (IF Cardinality(touched) < MaxTouched /\ stack_ptr - address <= Window
     THEN {TouchedByte} ELSE {})

RunStates == {"running", "halted"}

\* ------------------------------------------------------------------ scan

\* no recorder in use
RecIdle ==
    /\ snapshot_variants = <<>>
    /\ records = <<>>
    /\ iter = None
    /\ stats = None
    /\ rec_pc = "idle"
    /\ recorded = <<>>
    /\ yielded = <<>>
    /\ iter_done = FALSE
    /\ feed = "free"

\* no listing being parsed
AsmIdle ==
    /\ actual_function = None
    /\ functions = <<>>
    /\ asm_pc = "idle"
    /\ query = None
    /\ listing = <<>>
    /\ tape = "free"

InitScan ==
    /\ RecIdle
    /\ AsmIdle
    /\ stack_ptr \in {LowTop, HighTop}
    /\ ram_base \in {0} \cup (IF stack_ptr >= ShortRam THEN {stack_ptr - ShortRam} ELSE {})
    /\ analyse_mode \in {"none", "looping"}
    \* main reaches its loop from reset_and_halt (main.rs 218, cpu.rs 157)
    /\ core \in (IF analyse_mode = "looping" THEN {"halted"} ELSE RunStates)
    /\ entry_core = core
    /\ prev_state_halt = FALSE
    /\ cmds = <<>>
    /\ pc = (IF analyse_mode = "looping" THEN "main" ELSE "entry")
    /\ address = stack_ptr - 1
    /\ used_bytes = 0
    /\ in_offset_flag = FALSE
    /\ test_offset = TEST_OFFSET
    /\ act_range = None
    /\ offset_mem = <<>>
    /\ ranges = <<>>
    /\ act_stack_ptr = 0
    /\ instr_ptr = 0
    /\ res = None
    /\ touched = {}
    /\ run = 0
    /\ max_run = 0
    /\ reads = 0
    /\ loop_exit = "none"
    /\ last_read = None

scanLocals == <<address, used_bytes, in_offset_flag, test_offset, act_range,
                offset_mem, ranges>>
scanHistory == <<touched, run, max_run, reads, loop_exit, last_read>>
scanRegs == <<act_stack_ptr, instr_ptr, res>>

\* mutant of AfterQuery: the access goes on without a halt command
AfterQueryNeverHalt(halted) == "scan"

\* cpu.rs 86-88: the halt command is issued only to a core found running
AfterQuery(halted) == IF halted THEN "scan" ELSE "halt"

\* mutant of AfterFunc: the run command is issued whatever the entry state was
\* (the discipline of halt_while)
AfterFuncAlwaysResume(halted) == "resume"

\* cpu.rs 93-95: the run command is issued only to a core found running
AfterFunc(halted) == IF halted THEN "done" ELSE "resume"

\* cpu.rs 81-84: core_halted() answers
CoreHaltedQuery ==
    /\ pc = "entry"
    /\ prev_state_halt' = (core = "halted")
    /\ pc' = AfterQuery(core = "halted")
    /\ UNCHANGED <<recVars, asmVars, analyse_mode, core, entry_core, cmds, ram_base, stack_ptr, scanLocals,
                   scanHistory, scanRegs>>

\* cpu.rs 82-83: session.core(0)? or core_halted()? fails
CoreHaltedError ==
    /\ pc = "entry"
    /\ pc' = "err"
    /\ UNCHANGED <<recVars, asmVars, analyse_mode, core, entry_core, prev_state_halt, cmds, ram_base, stack_ptr,
                   scanLocals, scanHistory, scanRegs>>

\* cpu.rs 86-88 with CPU::halt 28-33: the halt command succeeds
HaltOk ==
    /\ pc = "halt"
    /\ core' = "halted"
    /\ cmds' = Append(cmds, "halt")
    /\ pc' = "scan"
    /\ UNCHANGED <<recVars, asmVars, analyse_mode, entry_core, prev_state_halt, ram_base, stack_ptr, scanLocals,
                   scanHistory, scanRegs>>

\* cpu.rs 87: self.halt()? fails: the command did not take effect
HaltError ==
    /\ pc = "halt"
    /\ core' = core
    /\ cmds' = Append(cmds, "halt")
    /\ pc' = "err"
    /\ UNCHANGED <<recVars, asmVars, analyse_mode, entry_core, prev_state_halt, ram_base, stack_ptr, scanLocals,
                   scanHistory, scanRegs>>

\* the touched-byte count after one loop iteration that read a touched byte
\* (mem_monitoring.rs 254 and 272)
CountTouched(used, in_flag) == (IF in_flag THEN used + 1 ELSE used) + 1

\* the lower bound given to a range that is closed (mem_monitoring.rs 238-244)
EndRange(addr, mem) == addr + CountPattern(mem)

\* whether an open range is closed by this iteration (mem_monitoring.rs 235)
ClosesRange(in_flag, t_off) == in_flag /\ TEST_OFFSET - t_off > OFFSET_BETWEEN_RANGES

\* mutant of Breaks: the countdown is taken as finished one step early
BreaksOneEarly(in_flag, untouched, t_off) == in_flag /\ untouched /\ t_off <= 1

\* whether the loop is left by this iteration (mem_monitoring.rs 262)
Breaks(in_flag, untouched, t_off) == in_flag /\ untouched /\ t_off = 0

\* mem_monitoring.rs 230-281: one iteration of the loop, the read succeeding
\* with value m
ReadByte ==
    /\ pc = "scan"
    /\ Readable(address)
    /\ \E m \in ByteValues :
        LET byte_not_overridden == (m = BYTE_PATTERN)
            pushed  == IF in_offset_flag THEN Append(offset_mem, m) ELSE offset_mem
            closing == ClosesRange(in_offset_flag, test_offset) /\ act_range # None
            closed  == UsedRangeComplete(act_range[1], EndRange(address, pushed))
            act1    == IF closing THEN None ELSE act_range
            brk     == Breaks(in_offset_flag, byte_not_overridden, test_offset)
        IN  /\ offset_mem' = IF closing THEN <<>> ELSE pushed
            /\ ranges' = IF closing THEN Append(ranges, closed) ELSE ranges
            /\ used_bytes' = IF byte_not_overridden THEN used_bytes
                             ELSE CountTouched(used_bytes, in_offset_flag)
            /\ act_range' = IF ~byte_not_overridden /\ act1 = None
                            THEN Some(UsedRangeNew(address)) ELSE act1
            /\ test_offset' = IF ~in_offset_flag THEN test_offset
                              ELSE IF ~byte_not_overridden THEN TEST_OFFSET
                              ELSE IF test_offset = 0 THEN test_offset
                              ELSE test_offset - 1
            /\ in_offset_flag' = IF brk THEN in_offset_flag ELSE byte_not_overridden
            /\ touched' = IF byte_not_overridden THEN touched ELSE touched \cup {address}
            /\ run' = IF byte_not_overridden THEN run + 1 ELSE 0
            /\ max_run' = IF byte_not_overridden /\ run + 1 > max_run THEN run + 1 ELSE max_run
            /\ reads' = reads + 1
            /\ last_read' = Some(address)
            /\ IF brk
               THEN /\ pc' = "read_sp"
                    /\ address' = address
                    /\ loop_exit' = "break"
               ELSE \* address -= 1: below 0 a checked build panics, an unchecked one wraps
                    \/ /\ address > 0
                       /\ address' = address - 1
                       /\ pc' = "scan"
                       /\ loop_exit' = loop_exit
                    \/ /\ address = 0
                       /\ address' = WrappedBelowZero
                       /\ pc' = "scan"
                       /\ loop_exit' = loop_exit
                    \/ /\ address = 0
                       /\ address' = address
                       /\ pc' = "panic"
                       /\ loop_exit' = "overflow"
    /\ UNCHANGED <<recVars, asmVars, analyse_mode, core, entry_core, prev_state_halt, cmds, ram_base, stack_ptr, scanRegs>>

\* mem_monitoring.rs 230: read_word_8 fails, the loop ends
ReadFail ==
    /\ pc = "scan"
    /\ ~Readable(address)
    /\ pc' = "read_sp"
    /\ loop_exit' = "fail"
    /\ UNCHANGED <<recVars, asmVars, analyse_mode, core, entry_core, prev_state_halt, cmds, ram_base, stack_ptr,
                   scanLocals, touched, run, max_run, reads, last_read, scanRegs>>

\* mem_monitoring.rs 284: the stack pointer register is read
ReadSpOk ==
    /\ pc = "read_sp"
    /\ act_stack_ptr' \in {stack_ptr, IF stack_ptr >= SpDepth THEN stack_ptr - SpDepth ELSE 0}
    /\ pc' = "read_pc"
    /\ UNCHANGED <<recVars, asmVars, analyse_mode, core, entry_core, prev_state_halt, cmds, ram_base, stack_ptr,
                   scanLocals, scanHistory, instr_ptr, res>>

\* mem_monitoring.rs 284: read_core_reg(stack_pointer)? fails
ReadSpError ==
    /\ pc = "read_sp"
    /\ pc' = "err"
    /\ UNCHANGED <<recVars, asmVars, analyse_mode, core, entry_core, prev_state_halt, cmds, ram_base, stack_ptr,
                   scanLocals, scanHistory, scanRegs>>

\* mem_monitoring.rs 285: the program counter register is read
ReadPcOk ==
    /\ pc = "read_pc"
    /\ instr_ptr' \in InstrPtrs
    /\ pc' = "resolve"
    /\ UNCHANGED <<recVars, asmVars, analyse_mode, core, entry_core, prev_state_halt, cmds, ram_base, stack_ptr,
                   scanLocals, scanHistory, act_stack_ptr, res>>

\* mem_monitoring.rs 285: read_core_reg(program_counter)? fails
ReadPcError ==
    /\ pc = "read_pc"
    /\ pc' = "err"
    /\ UNCHANGED <<recVars, asmVars, analyse_mode, core, entry_core, prev_state_halt, cmds, ram_base, stack_ptr,
                   scanLocals, scanHistory, scanRegs>>

\* mem_monitoring.rs 293-304: the snapshot is built; the function lookup is unwrapped
BuildSnapshot ==
    /\ pc = "resolve"
    /\ LET f == get_function_based_on_addr(ScanIndex, instr_ptr)
       IN  IF f = None
           THEN /\ pc' = "panic"
                /\ res' = res
           ELSE /\ res' = Some([used_bytes |-> used_bytes,
                                stack_ptr_offset |-> stack_ptr - act_stack_ptr,
                                ranges |-> ranges,
                                instr_ptr |-> instr_ptr,
                                function |-> f[1].name])
                /\ pc' = AfterFunc(prev_state_halt)
    /\ UNCHANGED <<recVars, asmVars, analyse_mode, core, entry_core, prev_state_halt, cmds, ram_base, stack_ptr,
                   scanLocals, scanHistory, act_stack_ptr, instr_ptr>>

\* cpu.rs 93-95 with CPU::run 35-40: the run command succeeds
RunOk ==
    /\ pc = "resume"
    /\ core' = "running"
    /\ cmds' = Append(cmds, "run")
    /\ pc' = "done"
    /\ UNCHANGED <<recVars, asmVars, analyse_mode, entry_core, prev_state_halt, ram_base, stack_ptr, scanLocals,
                   scanHistory, scanRegs>>

\* cpu.rs 94: self.run()? fails: the command did not take effect
RunError ==
    /\ pc = "resume"
    /\ core' = core
    /\ cmds' = Append(cmds, "run")
    /\ pc' = "err"
    /\ UNCHANGED <<recVars, asmVars, analyse_mode, entry_core, prev_state_halt, ram_base, stack_ptr, scanLocals,
                   scanHistory, scanRegs>>

\* the state in which calculate_used_ram is entered (mem_monitoring.rs 219-226),
\* with the core as it is
EnterScan ==
    /\ entry_core' = core
    /\ prev_state_halt' = FALSE
    /\ cmds' = <<>>
    /\ address' = stack_ptr - 1
    /\ used_bytes' = 0
    /\ in_offset_flag' = FALSE
    /\ test_offset' = TEST_OFFSET
    /\ act_range' = None
    /\ offset_mem' = <<>>
    /\ ranges' = <<>>
    /\ act_stack_ptr' = 0
    /\ instr_ptr' = 0
    /\ res' = None
    /\ touched' = {}
    /\ run' = 0
    /\ max_run' = 0
    /\ reads' = 0
    /\ loop_exit' = "none"
    /\ last_read' = None

\* main.rs 233: no start address was given, the loop is entered at once
MainNoStartAddr ==
    /\ pc = "main"
    /\ pc' = "entry"
    /\ UNCHANGED <<recVars, asmVars, analyse_mode, core, entry_core, prev_state_halt, cmds,
                   ram_base, stack_ptr, scanLocals, scanHistory, scanRegs>>

\* main.rs 234 with cpu.rs 50-52: the breakpoint is set and the core is started
RunToPointRun ==
    /\ pc = "main"
    /\ core' = "running"
    /\ entry_core' = core'
    /\ pc' = "wait_for_core_halted"
    /\ UNCHANGED <<recVars, asmVars, analyse_mode, prev_state_halt, cmds, ram_base, stack_ptr,
                   scanLocals, scanHistory, scanRegs>>

\* cpu.rs 51-52: set_hw_breakpoint or run fails, main returns the error
RunToPointError ==
    /\ pc = "main"
    /\ pc' = "err"
    /\ UNCHANGED <<recVars, asmVars, analyse_mode, core, entry_core, prev_state_halt, cmds,
                   ram_base, stack_ptr, scanLocals, scanHistory, scanRegs>>

\* cpu.rs 53-57: the core halts on the breakpoint, run_to_point returns
BreakpointReached ==
    /\ pc = "wait_for_core_halted"
    /\ core' = "halted"
    /\ entry_core' = core'
    /\ pc' = "entry"
    /\ UNCHANGED <<recVars, asmVars, analyse_mode, prev_state_halt, cmds, ram_base, stack_ptr,
                   scanLocals, scanHistory, scanRegs>>

\* cpu.rs 53-54: the breakpoint is not reached in time, the expect panics
BreakpointTimeout ==
    /\ pc = "wait_for_core_halted"
    /\ pc' = "panic"
    /\ UNCHANGED <<recVars, asmVars, analyse_mode, core, entry_core, prev_state_halt, cmds,
                   ram_base, stack_ptr, scanLocals, scanHistory, scanRegs>>

\* main.rs 237-240: the scan has returned Ok, the snapshot is recorded and main
\* sleeps for the interval
MainSleep ==
    /\ pc = "done"
    /\ analyse_mode = "looping"
    /\ pc' = "sleep"
    /\ UNCHANGED <<recVars, asmVars, analyse_mode, core, entry_core, prev_state_halt, cmds,
                   ram_base, stack_ptr, scanLocals, scanHistory, scanRegs>>

\* main.rs 241 and 236-237: the minute is not over, the next scan is entered
MainNextScan ==
    /\ pc = "sleep"
    /\ pc' = "entry"
    /\ EnterScan
    /\ UNCHANGED <<recVars, asmVars, analyse_mode, core, ram_base, stack_ptr>>

\* main.rs 241-243: the minute is over, the loop is left
MainBreak ==
    /\ pc = "sleep"
    /\ pc' = "finished"
    /\ UNCHANGED <<recVars, asmVars, analyse_mode, core, entry_core, prev_state_halt, cmds,
                   ram_base, stack_ptr, scanLocals, scanHistory, scanRegs>>

NextScan ==
    \/ MainNoStartAddr
    \/ RunToPointRun
    \/ RunToPointError
    \/ BreakpointReached
    \/ BreakpointTimeout
    \/ MainSleep
    \/ MainNextScan
    \/ MainBreak
    \/ CoreHaltedQuery
    \/ CoreHaltedError
    \/ HaltOk
    \/ HaltError
    \/ ReadByte
    \/ ReadFail
    \/ ReadSpOk
    \/ ReadSpError
    \/ ReadPcOk
    \/ ReadPcError
    \/ BuildSnapshot
    \/ RunOk
    \/ RunError

SpecScan == InitScan /\ [][NextScan]_vars

\* the access has returned (Ok, Err) or unwound (panic)
Returned == pc \in {"done", "err", "panic"}

\* -------------------------------------------------------------- recorder

\* the snapshots handed to record: touched-byte counts, stack-pointer offsets,
\* and the evidence (ranges, instruction pointer, function) that goes with them
UsedVals == {1, 2}
OffVals == {10, 20, 40}
Evidence ==
    { [ranges |-> <<[start |-> 196, end |-> 199]>>, instr_ptr |-> 16, function |-> "A"],
      [ranges |-> <<[start |-> 196, end |-> 199]>>, instr_ptr |-> 32, function |-> "B"],
      [ranges |-> <<[start |-> 190, end |-> 199]>>, instr_ptr |-> 16, function |-> "A"] }

SnapshotValues ==
    { [used_bytes |-> u, stack_ptr_offset |-> o, ranges |-> e.ranges,
       instr_ptr |-> e.instr_ptr, function |-> e.function] :
      u \in UsedVals, o \in OffVals, e \in Evidence }

\* the series of four samples whose stack-pointer offsets are 10, 20, 30, 40
Signal ==
    [k \in 1..4 |->
        [used_bytes |-> k, stack_ptr_offset |-> 10 * k,
         ranges |-> <<[start |-> 200 - k, end |-> 199]>>,
         instr_ptr |-> 16, function |-> "A"]]

\* impl PartialEq for RamSnapshot
SnapshotEq(a, b) ==
    /\ a.used_bytes = b.used_bytes
    /\ a.stack_ptr_offset = b.stack_ptr_offset
    /\ a.ranges = b.ranges

\* mutant of Position: the variant table is never searched
PositionNever(variants, snapshot) == None

\* Iterator::position: the 0-based position of the first variant equal to the
\* snapshot, as an Option<usize>
Position(variants, snapshot) ==
    LET hits == {i \in 1..Len(variants) : SnapshotEq(variants[i], snapshot)}
    IN  IF hits = {} THEN None
        ELSE Some((CHOOSE i \in hits : \A j \in hits : i <= j) - 1)

\* Vec indexing with a usize
At(vec, index) == vec[index + 1]

RECURSIVE Insert(_, _)
Insert(sorted, x) ==
    IF sorted = <<>> THEN <<x>>
    ELSE IF x <= Head(sorted) THEN <<x>> \o sorted
    ELSE <<Head(sorted)>> \o Insert(Tail(sorted), x)

RECURSIVE SortU32(_)
\* sort_unstable_by(partial_cmp) on a Vec<u32>: ascending
SortU32(v) == IF v = <<>> THEN <<>> ELSE Insert(SortU32(Tail(v)), Head(v))

\* (hi - lo) * d as u32, where d = frac100 / 100 is the fractional part of the
\* rank: the cast binds tighter than the product, so d is truncated first
InterpolationStep(lo, hi, frac100) == (hi - lo) * (frac100 \div 100)

\* percentile_of_sorted for a whole-number percentage pct on a non-empty slice;
\* rank = (pct / 100) * (len - 1), lrank = floor(rank), d = rank - lrank
percentile_of_sorted(sorted_samples, pct) ==
    IF Len(sorted_samples) = 1 THEN sorted_samples[1]
    ELSE IF pct = 100 THEN sorted_samples[Len(sorted_samples)]
    ELSE LET length == Len(sorted_samples) - 1
             n      == (pct * length) \div 100
             d100   == (pct * length) % 100
             lo     == At(sorted_samples, n)
             hi     == At(sorted_samples, n + 1)
         IN  lo + InterpolationStep(lo, hi, d100)

\* mutant of StackPtrCourse: the course is taken from the sorted vector
StackPtrCourseSorted(variants, recs) ==
    SortU32([k \in 1..Len(recs) |-> At(variants, recs[k]).stack_ptr_offset])

\* records.iter().map(|r| snapshot_variants[*r].stack_ptr_offset)
StackPtrCourse(variants, recs) ==
    [k \in 1..Len(recs) |-> At(variants, recs[k]).stack_ptr_offset]

\* records.iter().map(|r| snapshot_variants[*r].used_bytes)
MemUsageCourse(variants, recs) ==
    [k \in 1..Len(recs) |-> At(variants, recs[k]).used_bytes]

\* mutant of LastOf: the first element of the sorted vector is taken
LastOfIsFirst(sorted) == sorted[1]

\* *sorted.last().unwrap() on a non-empty vector (lines 118 and 127)
LastOf(sorted) == sorted[Len(sorted)]

\* the value calculate_statistics returns on a recorder with a sample
Statistics(variants, recs) ==
    LET stack_ptrs_off == SortU32(StackPtrCourse(variants, recs))
        max_mem_usage  == SortU32(MemUsageCourse(variants, recs))
    IN  [ median_stack_ptr_off |-> percentile_of_sorted(stack_ptrs_off, 50),
          max_stack_ptr_off    |-> LastOf(stack_ptrs_off),
          max_mem_usage        |-> LastOf(max_mem_usage),
          stack_ptr_course     |-> StackPtrCourse(variants, recs),
          mem_usage_course     |-> MemUsageCourse(variants, recs) ]

\* no scan in progress
ScanIdle ==
    /\ core = "halted"
    /\ entry_core = "halted"
    /\ prev_state_halt = FALSE
    /\ cmds = <<>>
    /\ pc = "idle"
    /\ analyse_mode = "none"
    /\ ram_base = 0
    /\ stack_ptr = HighTop
    /\ address = HighTop - 1
    /\ used_bytes = 0
    /\ in_offset_flag = FALSE
    /\ test_offset = TEST_OFFSET
    /\ act_range = None
    /\ offset_mem = <<>>
    /\ ranges = <<>>
    /\ act_stack_ptr = 0
    /\ instr_ptr = 0
    /\ res = None
    /\ touched = {}
    /\ run = 0
    /\ max_run = 0
    /\ reads = 0
    /\ loop_exit = "none"
    /\ last_read = None

\* the snapshots the next call of record may be given
NextSnapshots ==
    IF feed = "free"
    THEN (IF Len(recorded) < MaxRecords THEN SnapshotValues ELSE {})
    ELSE (IF Len(recorded) < Len(Signal) THEN {Signal[Len(recorded) + 1]} ELSE {})

\* RamSnapshotRecorder::new
InitRec ==
    /\ ScanIdle
    /\ AsmIdle
    /\ snapshot_variants = <<>>
    /\ records = <<>>
    /\ iter = None
    /\ stats = None
    /\ rec_pc = "run"
    /\ recorded = <<>>
    /\ yielded = <<>>
    /\ iter_done = FALSE
    /\ feed \in {"free", "signal"}

\* RamSnapshotRecorder::record; statistics are taken after the last sample
\* (main.rs 320) and a live iterator borrows the recorder
Record ==
    /\ rec_pc = "run"
    /\ iter = None
    /\ stats = None
    /\ \E snapshot \in NextSnapshots :
        LET sp == Position(snapshot_variants, snapshot)
        IN  /\ IF sp # None
               THEN /\ records' = Append(records, sp[1])
                    /\ snapshot_variants' = snapshot_variants
               ELSE /\ snapshot_variants' = Append(snapshot_variants, snapshot)
                    /\ records' = Append(records, Len(snapshot_variants') - 1)
            /\ recorded' = Append(recorded, snapshot)
    /\ UNCHANGED <<scanVars, asmVars, iter, stats, rec_pc, yielded, iter_done, feed>>

\* mutant of PercentileFailure: without the assert of line 149 an empty slice
\* is indexed
PercentileFailureUnchecked(sorted_samples) ==
    IF sorted_samples = <<>> THEN "out_of_bounds" ELSE "none"

\* how percentile_of_sorted fails on its input: assert!(!sorted_samples.is_empty())
\* (line 149) is evaluated before any element is read
PercentileFailure(sorted_samples) ==
    IF sorted_samples = <<>> THEN "assert_failed" ELSE "none"

\* RamSnapshotRecorder::calculate_statistics; the first call it makes that can
\* fail is percentile_of_sorted on the sorted stack-pointer offsets (line 116)
CalculateStatistics ==
    /\ rec_pc = "run"
    /\ iter = None
    /\ stats = None
    /\ LET failure == PercentileFailure(SortU32(StackPtrCourse(snapshot_variants, records)))
       IN  IF failure # "none"
           THEN /\ rec_pc' = failure
                /\ stats' = stats
           ELSE /\ stats' = Some(Statistics(snapshot_variants, records))
                /\ rec_pc' = rec_pc
    /\ UNCHANGED <<scanVars, asmVars, snapshot_variants, records, iter, recorded,
                   yielded, iter_done, feed>>

\* RamSnapshotRecorder::get_records
GetRecords ==
    /\ rec_pc = "run"
    /\ iter = None
    /\ iter' = Some([pos |-> 0])
    /\ yielded' = <<>>
    /\ iter_done' = FALSE
    /\ UNCHANGED <<scanVars, asmVars, snapshot_variants, records, stats, rec_pc, recorded, feed>>

\* the position of the iterator after it has returned an element (lines 180-181)
PosAfterNext(pos) == pos

\* impl Iterator for RamSnapshotRecords: next()
IterNext ==
    /\ rec_pc = "run"
    /\ iter # None
    /\ ~iter_done
    /\ Len(yielded) < MaxYield
    /\ IF iter[1].pos = Len(records)
       THEN /\ iter_done' = TRUE
            /\ UNCHANGED <<iter, yielded>>
       ELSE LET snap_index == records[iter[1].pos + 1]
            IN  /\ yielded' = Append(yielded, At(snapshot_variants, snap_index))
                /\ iter' = Some([pos |-> PosAfterNext(iter[1].pos)])
                /\ iter_done' = iter_done
    /\ UNCHANGED <<scanVars, asmVars, snapshot_variants, records, stats, rec_pc, recorded, feed>>

\* the iterator is dropped
DropIter ==
    /\ rec_pc = "run"
    /\ iter # None
    /\ iter' = None
    /\ yielded' = <<>>
    /\ iter_done' = FALSE
    /\ UNCHANGED <<scanVars, asmVars, snapshot_variants, records, stats, rec_pc, recorded, feed>>

NextRec ==
    \/ Record
    \/ CalculateStatistics
    \/ GetRecords
    \/ IterNext
    \/ DropIter

SpecRec == InitRec /\ [][NextRec]_vars

\* ----------------------------------------------------- disassembly index

\* A line of the listing as the three patterns of parse_asm_file see it:
\*   kind "header": function_heading matches, addr and text = func_name
\*   kind "instr" : instruction_line matches, addr and text = instr_line
\*   kind "other" : neither matches
HeaderLine(addr, name) == [kind |-> "header", addr |-> addr, text |-> name]
InstrLine(addr, text) == [kind |-> "instr", addr |-> addr, text |-> text]
OtherLine == [kind |-> "other", addr |-> 0, text |-> ""]

\* instruction_bl.captures(instr_line): the destination of a call, if any
BranchDest(text) ==
    CASE text = "bl A" -> Some("A")
      [] text = "bl B" -> Some("B")
      [] OTHER -> None

\* asm_parsing.rs 134-141: Instruction::Branch { dest } or Instruction::Any(text)
ParseInstruction(text) ==
    IF BranchDest(text) # None
    THEN [tag |-> "Branch", arg |-> BranchDest(text)[1]]
    ELSE [tag |-> "Any", arg |-> text]

\* the lines a freely chosen listing is made of
LineValues ==
    {HeaderLine(a, n) : a \in {0, 1}, n \in {"A", "B"}}
    \cup {InstrLine(a, "nop") : a \in {0, 1, 2}}
    \cup {InstrLine(2, t) : t \in {"bl A", "bl B"}}
    \cup {OtherLine}

\* the listing of two functions A (0x10..0x1f, ending in a call of B) and
\* B (0x20..0x2f)
TwoFunctions ==
    <<HeaderLine(16, "A")>>
    \o [i \in 1..15 |-> InstrLine(15 + i, "nop")]
    \o <<InstrLine(31, "bl B"), HeaderLine(32, "B")>>
    \o [i \in 1..16 |-> InstrLine(31 + i, "nop")]

\* a listing whose function A calls B, A and B again
RepeatedCalls ==
    << HeaderLine(0, "A"), InstrLine(0, "bl B"), InstrLine(1, "bl A"),
       InstrLine(2, "bl B"), InstrLine(3, "nop"),
       HeaderLine(4, "B"), InstrLine(4, "nop") >>

\* a listing that starts with an instruction line and an unmatched line before
\* its first header
OrphanFirst ==
    << InstrLine(0, "nop"), OtherLine,
       HeaderLine(1, "A"), InstrLine(1, "nop"), OtherLine, InstrLine(2, "bl B"),
       HeaderLine(3, "B"), InstrLine(3, "nop") >>

FixedListing(t) ==
    CASE t = "two_functions" -> TwoFunctions
      [] t = "orphan_first" -> OrphanFirst
      [] OTHER -> RepeatedCalls

\* the lines the stream may deliver next
NextLines ==
    IF tape = "free"
    THEN (IF Len(listing) < MaxLines THEN LineValues ELSE {})
    ELSE (IF Len(listing) < Len(FixedListing(tape))
          THEN {FixedListing(tape)[Len(listing) + 1]} ELSE {})

\* the stream may end here
AtEnd == tape = "free" \/ Len(listing) = Len(FixedListing(tape))

\* mutant of FunctionHeaderNew: the new accumulator starts with the instructions
\* of the one it replaces
FunctionHeaderNewKeepsOld(name, start_addr) ==
    [name |-> name, start_addr |-> start_addr,
     instructions |-> IF actual_function = None THEN <<>>
                      ELSE actual_function[1].instructions]

\* FunctionHeader::new
FunctionHeaderNew(name, start_addr) ==
    [name |-> name, start_addr |-> start_addr, instructions |-> <<>>]

\* mutant of RangeEnd: the range ends at the last instruction itself
RangeEndAtLast(instructions) == instructions[Len(instructions)][1]

\* the exclusive end of a function's range: one past the address of its last
\* instruction (asm_parsing.rs 94)
RangeEnd(instructions) == instructions[Len(instructions)][1] + 1

\* FunctionHeader::complete, on a header with at least one instruction
FunctionHeaderComplete(self) ==
    [name |-> self.name,
     range |-> [start |-> self.start_addr, end |-> RangeEnd(self.instructions)],
     instructions |-> self.instructions]

\* instructions.last().unwrap() panics on an empty instruction list
CompletePanics(self) == self.instructions = <<>>

InitAsm ==
    /\ ScanIdle
    /\ RecIdle
    /\ actual_function = None
    /\ functions = <<>>
    /\ asm_pc = "parsing"
    /\ query = None
    /\ listing = <<>>
    /\ tape \in {"free", "two_functions", "repeated_calls", "orphan_first"}

\* asm_parsing.rs 118-128: a function header line
ReadHeader ==
    /\ asm_pc = "parsing"
    /\ \E line \in NextLines :
        /\ line.kind = "header"
        /\ listing' = Append(listing, line)
        /\ actual_function' = Some(FunctionHeaderNew(line.text, line.addr))
        /\ IF actual_function = None
           THEN UNCHANGED <<functions, asm_pc>>
           ELSE IF CompletePanics(actual_function[1])
                THEN /\ asm_pc' = "panic"
                     /\ functions' = functions
                ELSE /\ functions' = Append(functions, FunctionHeaderComplete(actual_function[1]))
                     /\ asm_pc' = asm_pc
    /\ UNCHANGED <<scanVars, recVars, query, tape>>

\* asm_parsing.rs 129-145: an instruction line
ReadInstruction ==
    /\ asm_pc = "parsing"
    /\ \E line \in NextLines :
        /\ line.kind = "instr"
        /\ listing' = Append(listing, line)
        /\ actual_function' =
              IF actual_function = None THEN actual_function
              ELSE Some([actual_function[1] EXCEPT !.instructions =
                            Append(@, <<line.addr, ParseInstruction(line.text)>>)])
    /\ UNCHANGED <<scanVars, recVars, functions, asm_pc, query, tape>>

\* asm_parsing.rs 118-145: a line neither pattern matches
ReadOther ==
    /\ asm_pc = "parsing"
    /\ \E line \in NextLines :
        /\ line.kind = "other"
        /\ listing' = Append(listing, line)
    /\ UNCHANGED <<scanVars, recVars, actual_function, functions, asm_pc, query, tape>>

\* asm_parsing.rs 121-122 and 132-133: the address field of a header or an
\* instruction line is no hexadecimal u32; the build returns AddrParseError
ReadUnparsableAddr ==
    /\ asm_pc = "parsing"
    /\ NextLines # {}
    /\ tape = "free"
    /\ \E kind \in {"header", "instr"} :
        listing' = Append(listing, [kind |-> kind, addr |-> WrappedBelowZero, text |-> "?"])
    /\ asm_pc' = "error"
    /\ UNCHANGED <<scanVars, recVars, actual_function, functions, query, tape>>

\* asm_parsing.rs 148-152: the end of the stream
EndOfStream ==
    /\ asm_pc = "parsing"
    /\ AtEnd
    /\ actual_function' = None
    /\ IF actual_function = None
       THEN /\ asm_pc' = "built"
            /\ functions' = functions
       ELSE IF CompletePanics(actual_function[1])
            THEN /\ asm_pc' = "panic"
                 /\ functions' = functions
            ELSE /\ functions' = Append(functions, FunctionHeaderComplete(actual_function[1]))
                 /\ asm_pc' = "built"
    /\ UNCHANGED <<scanVars, recVars, query, listing, tape>>

\* the first function of the table with the given name, as an Option<Function>
\* (.iter().find(|f| f.name.eq(name)))
FindByName(fs, name) ==
    LET hits == {i \in 1..Len(fs) : fs[i].name = name}
    IN  IF hits = {} THEN None
        ELSE Some(fs[CHOOSE i \in hits : \A j \in hits : i <= j])

\* mutant of AlreadyListed: the result is never searched for the destination
AlreadyListedNever(found, dest) == FALSE

\* whether a destination is already in the result (asm_parsing.rs 56)
AlreadyListed(found, dest) == FindByName(found, dest) # None

RECURSIVE Subfunctions(_, _, _)
\* asm_parsing.rs 53-68: the loop over the instructions from position k on, with
\* the result built so far; Some(result), or None when a lookup is unwrapped on a
\* name the table does not hold (a panic)
Subfunctions(fs, instructions, found) ==
    IF instructions = <<>> THEN Some(found)
    ELSE LET instr == Head(instructions)[2]
         IN  IF instr.tag # "Branch" \/ AlreadyListed(found, instr.arg)
             THEN Subfunctions(fs, Tail(instructions), found)
             ELSE IF FindByName(fs, instr.arg) = None THEN None
             ELSE Subfunctions(fs, Tail(instructions),
                               Append(found, FindByName(fs, instr.arg)[1]))

\* the addresses and names the index is queried with
QueryAddrs == IF tape = "two_functions" THEN {16, 31, 32, 48} ELSE 0..3
QueryNames == {"A", "B"}

\* AsmFile::get_function_based_on_addr
Resolve ==
    /\ asm_pc = "built"
    /\ \E a \in QueryAddrs :
        query' = Some([op |-> "resolve", addr |-> a, name |-> "", panicked |-> FALSE,
                       result |-> get_function_based_on_addr(functions, a)])
    /\ UNCHANGED <<scanVars, recVars, actual_function, functions, asm_pc, listing, tape>>

\* AsmFile::get_subfunctions_of_function
Callees ==
    /\ asm_pc = "built"
    /\ \E name \in QueryNames :
        LET function == FindByName(functions, name)
            subs == IF function = None THEN None
                    ELSE Subfunctions(functions, function[1].instructions, <<>>)
        IN  query' = Some([op |-> "callees", addr |-> 0, name |-> name,
                           panicked |-> (function # None /\ subs = None),
                           result |-> subs])
    /\ UNCHANGED <<scanVars, recVars, actual_function, functions, asm_pc, listing, tape>>

NextAsm ==
    \/ ReadHeader
    \/ ReadInstruction
    \/ ReadOther
    \/ ReadUnparsableAddr
    \/ EndOfStream
    \/ Resolve
    \/ Callees

SpecAsm == InitAsm /\ [][NextAsm]_vars

\* ---------------------------------------------------------- scan: claims

\* lowest and highest address read as touched
TouchedLo == CHOOSE a \in touched : \A b \in touched : a <= b
TouchedHi == CHOOSE a \in touched : \A b \in touched : b <= a

\* C1: the touched-byte count of a returned snapshot equals the number of bytes
\* the scan read with a value other than 0x55, each counted once.
C1_CountIsTouchedBytes ==
    res # None => res[1].used_bytes = Cardinality(touched)

\* C2: two touched bytes separated by 1..OFFSET_BETWEEN_RANGES untouched bytes
\* and followed by a run that aborts the scan are reported as exactly one range,
\* whose bounds enclose both touched addresses.
C2_MergedRangeSpansBoth ==
    ( /\ res # None
      /\ loop_exit = "break"
      /\ Cardinality(touched) = 2
      /\ TouchedHi - TouchedLo - 1 \in 1..OFFSET_BETWEEN_RANGES )
    => /\ Len(res[1].ranges) = 1
       /\ res[1].ranges[1].start <= TouchedLo
       /\ res[1].ranges[1].end >= TouchedHi

\* C6: whenever access_only_in_halt_mode has returned, on the success path or
\* on an error path, the core is in the run-state it had on entry.
C6_RunStateRestored ==
    pc \in {"done", "err"} => core = entry_core

\* C7: an access entered with the core halted issues no halt and no run command
\* and the core stays halted, up to and including every way of returning.
C7_HaltedStaysHalted ==
    entry_core = "halted" => (cmds = <<>> /\ core = "halted")

\* C7 witness: an access entered with the core halted has returned a snapshot
C7_Witness ==
    entry_core = "halted" /\ pc = "done" /\ res # None /\ reads > 0

RecordedKeys == {<<recorded[k].used_bytes, recorded[k].stack_ptr_offset>> : k \in 1..Len(recorded)}

\* C3: after any sequence of record calls the variant table holds exactly one
\* entry per distinct (count, offset) pair recorded, whatever the ranges,
\* instruction pointer or function of the snapshots, and the index list holds
\* one entry per call.
C3_OneVariantPerKey ==
    /\ Len(snapshot_variants) = Cardinality(RecordedKeys)
    /\ Len(records) = Len(recorded)

\* C4: a replay of n recorded samples yields at most n snapshots, the k-th being
\* the variant the k-th index refers to, and it ends after exactly n of them.
C4_ReplayYieldsEachRecordOnce ==
    iter # None =>
        /\ Len(yielded) <= Len(records)
        /\ \A k \in 1..Len(yielded) :
              k <= Len(records) => yielded[k] = At(snapshot_variants, records[k])
        /\ (iter_done => Len(yielded) = Len(records))

\* the 50th percentile by linear interpolation of a sorted non-empty series:
\* rank = (n - 1) / 2, lo + trunc((hi - lo) * (rank - floor(rank)))
InterpolatedMedian(sorted) ==
    IF Len(sorted) = 1 THEN sorted[1]
    ELSE LET lrank == (Len(sorted) - 1) \div 2
             half  == (Len(sorted) - 1) % 2
             lo    == sorted[lrank + 1]
             hi    == sorted[lrank + 2]
         IN  lo + ((hi - lo) * half) \div 2

\* C5: median_stack_ptr_off is the linearly interpolated 50th percentile of the
\* sorted stack-pointer offsets of the recorded samples.
C5_MedianIsInterpolated ==
    stats # None =>
        stats[1].median_stack_ptr_off =
            InterpolatedMedian(SortU32([k \in 1..Len(recorded) |-> recorded[k].stack_ptr_offset]))

\* ----------------------------------------------------------- index: claims

\* positions of the header lines of the listing read so far
HeaderPositions == {k \in 1..Len(listing) : listing[k].kind = "header"}

\* position in the listing of the i-th header line
NthHeader(i) ==
    CHOOSE k \in HeaderPositions : Cardinality({h \in HeaderPositions : h <= k}) = i

\* positions of the instruction lines that follow the i-th header line, up to the
\* next header line or the end of the listing
LinesOf(i) ==
    {k \in 1..Len(listing) :
        /\ listing[k].kind = "instr"
        /\ k > NthHeader(i)
        /\ \A h \in HeaderPositions : h > NthHeader(i) => k < h}

\* the functions of the index whose range, read as start <= a < end, holds a
Holders(a) ==
    {i \in 1..Len(functions) :
        functions[i].range.start <= a /\ a < functions[i].range.end}

\* C9 (ranges): in a built index the i-th function starts at the address of the
\* i-th header line and ends one past the address of its last instruction line.
C9_RangeOfFunction ==
    asm_pc = "built" =>
        /\ Len(functions) = Cardinality(HeaderPositions)
        /\ \A i \in 1..Len(functions) :
              /\ LinesOf(i) # {}
              /\ functions[i].range.start = listing[NthHeader(i)].addr
              /\ functions[i].range.end =
                    listing[CHOOSE k \in LinesOf(i) : \A j \in LinesOf(i) : j <= k].addr + 1

\* C9 (lookup): resolve(a) is a function of the index whose half-open range
\* holds a, and not-found exactly when no range holds a.
C9_ResolveByRange ==
    (query # None /\ query[1].op = "resolve") =>
        LET a == query[1].addr
            r == query[1].result
        IN  /\ (r = None) <=> (Holders(a) = {})
            /\ r # None => \E i \in Holders(a) : r[1] = functions[i]

\* C9 (example): with A at 0x10..0x1f and B at 0x20..0x2f, resolve(0x10) = A,
\* resolve(0x1f) = A, resolve(0x20) = B and resolve(0x30) is not found.
C9_ResolveExample ==
    (tape = "two_functions" /\ query # None /\ query[1].op = "resolve") =>
        LET a == query[1].addr
            r == query[1].result
        IN  /\ a \in {16, 31} => (r # None /\ r[1].name = "A")
            /\ a = 32 => (r # None /\ r[1].name = "B")
            /\ a = 48 => r = None

\* C9: the three parts together
C9_Resolve == C9_RangeOfFunction /\ C9_ResolveByRange /\ C9_ResolveExample

\* C9 witness: the two-function listing is built and 0x1f is resolved to A, whose
\* range is 0x10..0x20
C9_Witness ==
    /\ tape = "two_functions"
    /\ asm_pc = "built"
    /\ query # None
    /\ query[1].op = "resolve"
    /\ query[1].addr = 31
    /\ query[1].result # None
    /\ query[1].result[1].name = "A"
    /\ query[1].result[1].range = [start |-> 16, end |-> 32]

RECURSIVE FirstSeen(_, _)
\* the destinations of the Branch instructions of a sequence, each once, in the
\* order of their first occurrence
FirstSeen(instructions, seen) ==
    IF instructions = <<>> THEN <<>>
    ELSE LET instr == Head(instructions)[2]
         IN  IF instr.tag = "Branch" /\ instr.arg \notin seen
             THEN <<instr.arg>> \o FirstSeen(Tail(instructions), seen \cup {instr.arg})
             ELSE FirstSeen(Tail(instructions), seen)

\* the names of the functions of the index
IndexNames == {functions[i].name : i \in 1..Len(functions)}

\* the first function of the index with a name of the index
Named(name) ==
    functions[CHOOSE i \in 1..Len(functions) :
                 /\ functions[i].name = name
                 /\ \A j \in 1..(i - 1) : functions[j].name # name]

\* C10: direct_callees of a name absent from the index is not-found; of a
\* function whose branch destinations are all in the index it is the list of the
\* destination functions, each once, in the order of the first Branch
\* instruction naming it.
C10_DirectCallees ==
    (query # None /\ query[1].op = "callees") =>
        LET name == query[1].name
            r == query[1].result
        IN  IF name \notin IndexNames
            THEN r = None /\ ~query[1].panicked
            ELSE LET dests == FirstSeen(Named(name).instructions, {})
                 IN  (\A k \in 1..Len(dests) : dests[k] \in IndexNames) =>
                        /\ ~query[1].panicked
                        /\ r # None
                        /\ Len(r[1]) = Len(dests)
                        /\ \A k \in 1..Len(dests) : r[1][k] = Named(dests[k])

\* C10 witness: A calls B, A and B again; its callees are B and A, in this order
C10_Witness ==
    /\ tape = "repeated_calls"
    /\ query # None
    /\ query[1].op = "callees"
    /\ query[1].name = "A"
    /\ query[1].result # None
    /\ Len(query[1].result[1]) = 2
    /\ query[1].result[1][1].name = "B"
    /\ query[1].result[1][2].name = "A"

\* ------------------------------------------------- scan: claims, continued

\* C11: when the program counter read at the end of a scan lies in no function
\* of the index, the step that builds the snapshot still returns one, labelled
\* "unresolved", and goes on to restore the run-state as on the normal path; it
\* does not panic.
C11_UnresolvedPcStillReturns ==
    [][ (pc = "resolve" /\ get_function_based_on_addr(ScanIndex, instr_ptr) = None)
        => /\ pc' = AfterFunc(prev_state_halt)
           /\ res' # None
           /\ res'[1].function = "unresolved" ]_vars

\* C15: the ranges of a returned snapshot are in ascending address order, each
\* range lying entirely below the next one of the list.
C15_RangesAscending ==
    res # None =>
        \A i, j \in 1..Len(res[1].ranges) :
            i < j => res[1].ranges[i].end <= res[1].ranges[j].start

\* the touched addresses merged into the k-th closed range: those from its first
\* touched byte down to, and excluding, the first touched byte of the range
\* opened after it
MergedInto(k) ==
    {a \in touched :
        /\ a <= ranges[k].end
        /\ k < Len(ranges) => a > ranges[k + 1].end
        /\ (k = Len(ranges) /\ act_range # None) => a > act_range[1].start}

\* C17: the lower bound of every closed range is the address of the lowest
\* touched byte merged into it, and never exceeds the range's upper bound.
C17_LowerBoundIsLowestTouched ==
    \A k \in 1..Len(ranges) :
        /\ ranges[k].start <= ranges[k].end
        /\ ranges[k].start \in MergedInto(k)
        /\ \A a \in MergedInto(k) : ranges[k].start <= a

\* C18: two touched bytes separated by more than OFFSET_BETWEEN_RANGES
\* consecutive untouched bytes are reported as two ranges.
C18_LongGapSplitsRanges ==
    ( /\ res # None
      /\ loop_exit = "break"
      /\ Cardinality(touched) = 2
      /\ TouchedHi - TouchedLo - 1 > OFFSET_BETWEEN_RANGES )
    => Len(res[1].ranges) = 2

\* C19: every address read as touched lies within one of the ranges of the
\* returned snapshot (bounds taken as inclusive), however the read loop ended.
C19_TouchedWithinRanges ==
    res # None =>
        \A a \in touched :
            \E k \in 1..Len(res[1].ranges) :
                res[1].ranges[k].start <= a /\ a <= res[1].ranges[k].end

\* ------------------------------------------------ index: claims, continued

\* C12: direct_callees of a function of the index never panics: when a Branch
\* names a destination the index does not hold, a result is still returned, and
\* it holds every destination function that the index does hold.
C12_UnresolvedCalleeRecoverable ==
    (query # None /\ query[1].op = "callees" /\ query[1].name \in IndexNames) =>
        LET dests == FirstSeen(Named(query[1].name).instructions, {})
            r == query[1].result
        IN  /\ ~query[1].panicked
            /\ r # None
            /\ \A k \in 1..Len(dests) :
                  dests[k] \in IndexNames =>
                      \E n \in 1..Len(r[1]) : r[1][n] = Named(dests[k])

\* C13: the build never panics, and a listing with a header line that no
\* instruction line follows before the next header or the end of the stream is
\* not built: no index holds a function with an empty instruction list.
C13_EmptyFunctionRejected ==
    /\ asm_pc # "panic"
    /\ asm_pc = "built" =>
          /\ \A i \in 1..Len(functions) : functions[i].instructions # <<>>
          /\ \A i \in 1..Cardinality(HeaderPositions) : LinesOf(i) # {}

\* ---------------------------------------------- recorder: claims, continued

\* C14: calculate_statistics on a recorder without a sample fails on the
\* emptiness assertion: it returns no statistics and indexes nothing out of
\* bounds; statistics are only ever returned for a recorder with a sample.
C14_EmptyFailsExplicitly ==
    /\ [](rec_pc # "out_of_bounds" /\ (stats # None => recorded # <<>>))
    /\ [][ (rec_pc = "run" /\ records = <<>> /\ snapshot_variants = <<>>
            /\ <<stats, rec_pc>>' # <<stats, rec_pc>>)
           => (rec_pc' = "assert_failed" /\ stats' = None) ]_vars

\* C14 witness: calculate_statistics was called on an empty recorder
C14_Witness ==
    rec_pc = "assert_failed" /\ records = <<>> /\ snapshot_variants = <<>> /\ stats = None

\* the largest element of a non-empty series
MaxOf(series) ==
    CHOOSE m \in {series[k] : k \in 1..Len(series)} :
        \A k \in 1..Len(series) : series[k] <= m

\* C16: the statistics of a non-empty recorded series hold the largest
\* stack-pointer offset and the largest touched-byte count of the recorded
\* samples; for the offsets 10, 20, 30, 40 the maximum is 40, for a single
\* sample it is that sample's value.
C16_MaximaAreLargest ==
    stats # None =>
        /\ stats[1].max_stack_ptr_off =
              MaxOf([k \in 1..Len(recorded) |-> recorded[k].stack_ptr_offset])
        /\ stats[1].max_mem_usage =
              MaxOf([k \in 1..Len(recorded) |-> recorded[k].used_bytes])
        /\ (feed = "signal" /\ Len(recorded) = 4) => stats[1].max_stack_ptr_off = 40
        /\ Len(recorded) = 1 =>
              /\ stats[1].max_stack_ptr_off = recorded[1].stack_ptr_offset
              /\ stats[1].max_mem_usage = recorded[1].used_bytes

\* C16 witness: statistics of the series 10, 20, 30, 40 with maximum 40
C16_Witness ==
    /\ feed = "signal"
    /\ Len(recorded) = 4
    /\ stats # None
    /\ stats[1].stack_ptr_course = <<10, 20, 30, 40>>
    /\ stats[1].max_stack_ptr_off = 40
    /\ stats[1].max_mem_usage = 4

\* a sequence is an initial part of another
IsPrefix(a, b) == Len(a) <= Len(b) /\ SubSeq(b, 1, Len(a)) = a

\* C20 (state): the index list has one entry per record call, the k-th being a
\* valid position whose variant equals the k-th recorded snapshot; every variant
\* is referenced; no two variants are equal under the recorder's equality.
C20_TablesConsistent ==
    /\ Len(records) = Len(recorded)
    /\ \A k \in 1..Len(records) :
          /\ records[k] \in 0..(Len(snapshot_variants) - 1)
          /\ SnapshotEq(At(snapshot_variants, records[k]), recorded[k])
    /\ \A i \in 1..Len(snapshot_variants) : \E k \in 1..Len(records) : records[k] = i - 1
    /\ \A i, j \in 1..Len(snapshot_variants) :
          i < j => ~SnapshotEq(snapshot_variants[i], snapshot_variants[j])

\* C20 (step): both tables only grow by appending, and a record call appends
\* exactly one index.
C20_TablesOnlyGrow ==
    /\ IsPrefix(snapshot_variants, snapshot_variants')
    /\ IsPrefix(records, records')
    /\ Len(snapshot_variants') <= Len(snapshot_variants) + 1
    /\ recorded' # recorded => Len(records') = Len(records) + 1

\* C20: the recorder invariant, in every state and over every step
C20_RecorderInvariant == []C20_TablesConsistent /\ [][C20_TablesOnlyGrow]_vars

\* C20 witness: three record calls, the third repeating the first sample, have
\* left two variants and the indices 0, 1, 0
C20_Witness ==
    /\ Len(recorded) = 3
    /\ Len(snapshot_variants) = 2
    /\ records = <<0, 1, 0>>
    /\ recorded[1] # recorded[2]

\* --------------------------------------------- scan: claims on its course

\* C21: the reads of a scan go down from stack_ptr - 1 one address at a time,
\* there are at most stack_ptr of them, and at address 0 the scan neither
\* crashes on the decrement nor wraps to an address below 0.
C21_ReadsDescendWithoutWrap ==
    /\ reads <= stack_ptr
    /\ last_read # None => last_read[1] = stack_ptr - reads
    /\ address >= 0
    /\ loop_exit # "overflow"

\* C22: while the scan is at a byte read or at a register read, and up to the
\* building of the snapshot, the core is halted.
C22_ReadsWhileHalted ==
    pc \in {"scan", "read_sp", "read_pc", "resolve"} => core = "halted"

\* C22 witness: a scan entered with the core running has read bytes and the
\* stack pointer and is at the read of the program counter
C22_Witness ==
    /\ entry_core = "running"
    /\ pc = "read_pc"
    /\ reads > 0
    /\ touched # {}
    /\ cmds = <<"halt">>

\* C23: in the looping mode of main the core is running while main sleeps
\* between two scans.
C23_RunsBetweenScans ==
    (analyse_mode = "looping" /\ pc = "sleep") => core = "running"

\* -------------------------------------------- index: claims on the build

\* C24: in a built index every range is non-empty and the ranges of any two
\* functions do not overlap.
C24_RangesDisjointNonEmpty ==
    asm_pc = "built" =>
        /\ \A i \in 1..Len(functions) : functions[i].range.start < functions[i].range.end
        /\ \A i, j \in 1..Len(functions) :
              i < j => \/ functions[i].range.end <= functions[j].range.start
                       \/ functions[j].range.end <= functions[i].range.start

\* the instruction lines that follow the i-th header line, parsed, in listing order
InstructionsOf(i) ==
    LET nth(m) == CHOOSE k \in LinesOf(i) : Cardinality({j \in LinesOf(i) : j <= k}) = m
    IN  [m \in 1..Cardinality(LinesOf(i)) |->
            <<listing[nth(m)].addr, ParseInstruction(listing[nth(m)].text)>>]

\* C25 (built): the index holds one function per header line, in listing order,
\* each with exactly the instruction lines between its header and the next
\* header or the end of the stream, in listing order.
C25_OneFunctionPerHeader ==
    asm_pc = "built" =>
        /\ actual_function = None
        /\ Len(functions) = Cardinality(HeaderPositions)
        /\ \A i \in 1..Len(functions) :
              /\ functions[i].name = listing[NthHeader(i)].text
              /\ functions[i].instructions = InstructionsOf(i)

\* C25 (while reading): every header line but the last one read has its function
\* stored, the last one is the open accumulator; before the first header line
\* nothing is open and nothing is stored.
C25_HeaderStoresPrevious ==
    asm_pc = "parsing" =>
        LET n == Cardinality(HeaderPositions)
        IN  IF n = 0
            THEN actual_function = None /\ functions = <<>>
            ELSE /\ actual_function # None
                 /\ actual_function[1].name = listing[NthHeader(n)].text
                 /\ actual_function[1].instructions = InstructionsOf(n)
                 /\ Len(functions) = n - 1
                 /\ \A i \in 1..(n - 1) :
                       /\ functions[i].name = listing[NthHeader(i)].text
                       /\ functions[i].instructions = InstructionsOf(i)

\* C25: both parts
C25_BuildGroupsByHeader == C25_OneFunctionPerHeader /\ C25_HeaderStoresPrevious

\* C25 witness: the listing that starts with an instruction line before its
\* first header is built: two functions, the first with the two instruction
\* lines between the headers, the orphan line in neither
C25_Witness ==
    /\ asm_pc = "built"
    /\ tape = "orphan_first"
    /\ Len(functions) = 2
    /\ functions[1].name = "A"
    /\ Len(functions[1].instructions) = 2
    /\ functions[1].instructions[2] = <<2, [tag |-> "Branch", arg |-> "B"]>>
    /\ functions[2].name = "B"
    /\ functions[2].instructions = <<<<3, [tag |-> "Any", arg |-> "nop"]>>>>

\* ------------------------------------------ recorder: claims on the courses

\* C26 (state): the two courses of returned statistics have one element per
\* record call, the i-th being the stack-pointer offset and the touched-byte
\* count of the i-th recorded snapshot.
C26_CoursesChronological ==
    stats # None =>
        /\ Len(stats[1].stack_ptr_course) = Len(recorded)
        /\ Len(stats[1].mem_usage_course) = Len(recorded)
        /\ \A i \in 1..Len(recorded) :
              /\ stats[1].stack_ptr_course[i] = recorded[i].stack_ptr_offset
              /\ stats[1].mem_usage_course[i] = recorded[i].used_bytes

\* C26 (step): the call that returns the statistics leaves the variant table
\* and the index list as they were.
C26_CallLeavesTables ==
    stats' # stats => (snapshot_variants' = snapshot_variants /\ records' = records)

\* C26: both parts
C26_CoursesFollowCalls == []C26_CoursesChronological /\ [][C26_CallLeavesTables]_vars

\* C26 witness: statistics of three samples recorded out of order, the third
\* being a repetition of the first
C26_Witness ==
    /\ stats # None
    /\ Len(recorded) = 3
    /\ records = <<0, 1, 0>>
    /\ recorded[1].stack_ptr_offset > recorded[2].stack_ptr_offset
    /\ stats[1].stack_ptr_course =
          <<recorded[1].stack_ptr_offset, recorded[2].stack_ptr_offset,
            recorded[1].stack_ptr_offset>>

====
